---- MODULE Spec2Model ----
(***************************************************************************)
(* RadishGherkinTransformer (src/src/radish/parser/transformer.py): the    *)
(* bottom-up reduction of a feature file's syntax tree into the radish     *)
(* AST.  The transformer instance is the record `self`; every handler of   *)
(* the class is an operator from (self, subtree) to the new self, the      *)
(* returned value and the raised exception, and one action applies it.     *)
(*                                                                         *)
(* Python values are tagged records: None is [type |-> "NoneType"], a str  *)
(* is [type |-> "str", val |-> <chunks>], a list is                        *)
(* [type |-> "list", val |-> <items>].  A text is a sequence of chunks     *)
(* (runs of characters); " " is whitespace and "\n" a line end.            *)
(***************************************************************************)
EXTENDS Integers, Sequences, FiniteSets, TLC

VARIABLES
    self,       \* the transformer instance: its attributes
    children,   \* reduced Tag and Step children waiting for their parent
    pending,    \* reduced step arguments / examples / iterations waiting
    ret,        \* the value returned by the last handler call
    raised,     \* the exception raised by the last handler call, or None
    twin,       \* a second instance, constructed fresh before each
                \* prepare(), fed the same calls (self, children, pending,
                \* ret, raised)
    call,       \* the last handler call: its name and its subtree
    built,      \* scenarios/backgrounds reduced in the current file
    files,      \* prepare() calls made so far
    nodes,      \* the feature's reduced children waiting for their parent,
                \* in source order, where the traversal follows them
    setters     \* the set_rule/set_background/set_feature calls made on
                \* the models of the current file, in order

vars == <<self, children, pending, ret, raised, twin, call, built, files,
          nodes, setters>>

------------------------------------------------------------------------------
\* Bounds of the model

MaxFiles == 2
MaxBuilt == 2
MaxSteps == 2
MaxTags == 1
MaxDataTables == 1
MaxTableRows == 3
MaxCells == 2
MaxDocLines == 2
MaxIndent == 2
MaxRules == 1

------------------------------------------------------------------------------
\* Python values

None == [type |-> "NoneType"]

IsUnset == [type |-> "unset"]

Str(chunks) == [type |-> "str", val |-> chunks]

List(items) == [type |-> "list", val |-> items]

PyInt(n) == [type |-> "int", val |-> n]

Tuple(items) == [type |-> "tuple", val |-> items]

Token(chunks, line) == [type |-> "Token", val |-> chunks, line |-> line]

Exception(name) == [type |-> name, args |-> <<>>]

Whitespace == {" ", "\t"}

\* str.strip(): drop the leading and the trailing whitespace
RECURSIVE lstrip(_)
lstrip(chunks) ==
    IF chunks # <<>> /\ Head(chunks) \in Whitespace
    THEN lstrip(Tail(chunks))
    ELSE chunks

RECURSIVE rstrip(_)
rstrip(chunks) ==
    IF chunks # <<>> /\ chunks[Len(chunks)] \in Whitespace
    THEN rstrip(SubSeq(chunks, 1, Len(chunks) - 1))
    ELSE chunks

strip(chunks) == rstrip(lstrip(chunks))

\* str.splitlines(True): the lines of a text, line ends kept
RECURSIVE splitlines(_, _)
splitlines(text, line) ==
    IF text = <<>>
    THEN IF line = <<>> THEN <<>> ELSE <<line>>
    ELSE IF Head(text) = "\n"
         THEN <<Append(line, "\n")>> \o splitlines(Tail(text), <<>>)
         ELSE splitlines(Tail(text), Append(line, Head(text)))

\* itertools.takewhile(lambda t: isinstance(t, <type>), subtree)
RECURSIVE takewhile(_, _)
takewhile(type, subtree) ==
    IF subtree # <<>> /\ Head(subtree).type = type
    THEN <<Head(subtree)>> \o takewhile(type, Tail(subtree))
    ELSE <<>>

\* itertools.takewhile(lambda t: not isinstance(t, <type>), subtree)
RECURSIVE takewhile_not(_, _)
takewhile_not(type, subtree) ==
    IF subtree # <<>> /\ Head(subtree).type # type
    THEN <<Head(subtree)>> \o takewhile_not(type, Tail(subtree))
    ELSE <<>>

\* subtree[n:]
From(subtree, n) == SubSeq(subtree, n + 1, Len(subtree))

------------------------------------------------------------------------------
\* radish.models constructors, as called by the transformer

Tag(name, path, line) ==
    [type |-> "Tag", name |-> name, path |-> path, line |-> line]

Step(id, keyword, used_keyword, text, doc_string, data_table, path, line) ==
    [type |-> "Step", id |-> id, keyword |-> keyword, used_keyword |-> used_keyword,
     text |-> text, doc_string |-> doc_string, data_table |-> data_table,
     path |-> path, line |-> line]

Scenario(id, short_description, tags, path, line, steps) ==
    [type |-> "Scenario", id |-> id, short_description |-> short_description,
     tags |-> tags, path |-> path, line |-> line, steps |-> steps]

ScenarioOutline(id, short_description, tags, path, line, steps, examples) ==
    [type |-> "ScenarioOutline", id |-> id, short_description |-> short_description,
     tags |-> tags, path |-> path, line |-> line, steps |-> steps,
     examples |-> examples]

ScenarioLoop(id, short_description, tags, path, line, steps, iterations) ==
    [type |-> "ScenarioLoop", id |-> id, short_description |-> short_description,
     tags |-> tags, path |-> path, line |-> line, steps |-> steps,
     iterations |-> iterations]

Background(short_description, path, line, steps) ==
    [type |-> "Background", short_description |-> short_description,
     path |-> path, line |-> line, steps |-> steps]

Rule(short_description, path, line, scenarios) ==
    [type |-> "Rule", short_description |-> short_description,
     path |-> path, line |-> line, scenarios |-> scenarios]

DefaultRule(path, line, scenarios) ==
    [type |-> "DefaultRule", path |-> path, line |-> line,
     scenarios |-> scenarios]

Feature(id, short_description, description, tags, path, line, background, rules) ==
    [type |-> "Feature", id |-> id, short_description |-> short_description,
     description |-> description, tags |-> tags, path |-> path, line |-> line,
     background |-> background, rules |-> rules]

\* a call object.set_rule(value), object.set_background(value) or
\* object.set_feature(value)
SetterCall(setter, object, value) ==
    [setter |-> setter, object |-> object, value |-> value]

------------------------------------------------------------------------------
\* RadishGherkinTransformer

FIRST_LEVEL_STEP_KEYWORDS == {Str(<<"Given">>), Str(<<"When">>), Str(<<"Then">>)}

SECOND_LEVEL_STEP_KEYWORDS == {Str(<<"And">>), Str(<<"But">>)}

\* a handler's outcome
Return(s, value) == [self |-> s, ret |-> value, raised |-> None]

Raise(s, name) == [self |-> s, ret |-> None, raised |-> Exception(name)]

\* the outcome of a handler that returns after the setter calls
ReturnCalling(s, value, calls) ==
    [self |-> s, ret |-> value, raised |-> None, calls |-> calls]

\* __init__
RadishGherkinTransformer ==
    [featurefile_path |-> IsUnset,
     featurefile_contents |-> None,
     feature_id |-> None,
     step_id |-> None,
     scenario_id |-> None,
     step_keyword_ctx |-> None]

prepare(s, featurefile_path, featurefile_contents, feature_id) ==
    Return([s EXCEPT !.featurefile_path = featurefile_path,
                     !.featurefile_contents = splitlines(featurefile_contents, <<>>),
                     !.feature_id = feature_id,
                     !.step_id = 1,
                     !.scenario_id = 1],
           None)

\* the longest prefix of a line made of blanks and tabs
RECURSIVE leading_whitespace(_)
leading_whitespace(line) ==
    IF line # <<>> /\ Head(line) \in Whitespace
    THEN <<Head(line)>> \o leading_whitespace(Tail(line))
    ELSE <<>>

\* the line without its line end
content(line) ==
    IF line # <<>> /\ line[Len(line)] = "\n"
    THEN SubSeq(line, 1, Len(line) - 1) ELSE line

startswith(text, prefix) ==
    Len(prefix) <= Len(text) /\ SubSeq(text, 1, Len(prefix)) = prefix

\* the common start of two indents, compared character by character
RECURSIVE common_whitespace(_, _)
common_whitespace(margin, indent) ==
    IF margin # <<>> /\ indent # <<>> /\ Head(margin) = Head(indent)
    THEN <<Head(margin)>> \o common_whitespace(Tail(margin), Tail(indent))
    ELSE <<>>

\* textwrap.dedent's loop over the indents of the lines that hold a character
\* other than blank and tab; margin is None before the first of them
RECURSIVE dedent_margin(_, _)
dedent_margin(indents, margin) ==
    IF indents = <<>> THEN margin
    ELSE LET indent == Head(indents)
         IN  dedent_margin(Tail(indents),
                 IF margin = None THEN Str(indent)
                 ELSE IF startswith(indent, margin.val) THEN margin
                 ELSE IF startswith(margin.val, indent) THEN Str(indent)
                 ELSE Str(common_whitespace(margin.val, indent)))

RECURSIVE join(_)
join(lines) == IF lines = <<>> THEN <<>> ELSE Head(lines) \o join(Tail(lines))

\* textwrap.dedent(text): the lines made of blanks and tabs only lose them,
\* the other lines lose the margin when they start with it
dedent(text) ==
    LET lines == splitlines(text, <<>>)
        emptied == [i \in DOMAIN lines |->
                       IF content(lines[i]) = leading_whitespace(lines[i])
                       THEN SubSeq(lines[i], Len(content(lines[i])) + 1, Len(lines[i]))
                       ELSE lines[i]]
        indented == SelectSeq(emptied, LAMBDA l :
                        content(l) # leading_whitespace(l))
        indents == [i \in DOMAIN indented |-> leading_whitespace(indented[i])]
        margin == dedent_margin(indents, None)
    IN  IF margin # None /\ margin.val # <<>>
        THEN join([i \in DOMAIN emptied |->
                      IF startswith(emptied[i], margin.val)
                      THEN SubSeq(emptied[i], Len(margin.val) + 1, Len(emptied[i]))
                      ELSE emptied[i]])
        ELSE join(emptied)

\* list[start:end] with 0 <= start and 0 <= end
slice(list, start, end) ==
    SubSeq(list, start + 1, IF end < Len(list) THEN end ELSE Len(list))

\* step_doc_string taking the lines before the last token's line only
step_doc_string_exclusive_end(s, subtree) ==
    LET startline == subtree[1].line - 1
        endline == subtree[Len(subtree)].line - 1
        lines == join(slice(s.featurefile_contents, startline, endline))
    IN  Return(s, Str(dedent(lines)))

step_doc_string(s, subtree) ==
    LET startline == subtree[1].line - 1
        endline == subtree[Len(subtree)].line
        lines == join(slice(s.featurefile_contents, startline, endline))
    IN  Return(s, Str(dedent(lines)))

\* step_data_table comparing only the first two rows
step_data_table_first_rows(s, subtree) ==
    IF Len(subtree) > 1 /\ Len(subtree[1]) # Len(subtree[2])
    THEN Raise(s, "RadishStepDataTableInconsistentCellCount")
    ELSE Return(s, List(subtree))

\* step_data_table: the rows of a step's data table
step_data_table(s, subtree) ==
    LET table == subtree
    IN  IF Cardinality({Len(table[i]) : i \in DOMAIN table}) > 1
        THEN Raise(s, "RadishStepDataTableInconsistentCellCount")
        ELSE Return(s, List(table))

\* step_arguments: (doc_string, data_table) from the reduced children
step_arguments(s, subtree) ==
    IF Len(subtree) = 0
    THEN Return(s, Tuple(<<None, None>>))
    ELSE IF Len(subtree) = 2
    THEN Return(s, Tuple(<<subtree[1], subtree[2]>>))
    ELSE IF subtree[1].type = "str"
    THEN Return(s, Tuple(<<subtree[1], None>>))
    ELSE Return(s, Tuple(<<None, subtree[1]>>))

\* step counting the step before it refuses it
step_counted_before_refused(s, subtree) ==
    LET keyword_token == subtree[1]
        text == subtree[2]
        doc_string == subtree[3].val[1]
        data_table == subtree[3].val[2]
        keyword_line == keyword_token.line
        keyword == Str(strip(keyword_token.val))
        ctx == IF s.step_keyword_ctx = None
               THEN keyword
               ELSE IF keyword \in FIRST_LEVEL_STEP_KEYWORDS
                       /\ keyword # s.step_keyword_ctx
                    THEN keyword
                    ELSE s.step_keyword_ctx
    IN  IF s.step_keyword_ctx = None /\ keyword \notin FIRST_LEVEL_STEP_KEYWORDS
        THEN Raise([s EXCEPT !.step_id = @ + 1],
                   "RadishFirstStepMustUseFirstLevelKeyword")
        ELSE Return([s EXCEPT !.step_keyword_ctx = ctx, !.step_id = @ + 1],
                    Step(s.step_id, ctx, keyword, text, doc_string, data_table,
                         s.featurefile_path, keyword_line))

step(s, subtree) ==
    LET keyword_token == subtree[1]
        text == subtree[2]
        doc_string == subtree[3].val[1]
        data_table == subtree[3].val[2]
        keyword_line == keyword_token.line
        keyword == Str(strip(keyword_token.val))
        ctx == IF s.step_keyword_ctx = None
               THEN keyword
               ELSE IF keyword \in FIRST_LEVEL_STEP_KEYWORDS
                       /\ keyword # s.step_keyword_ctx
                    THEN keyword
                    ELSE s.step_keyword_ctx
    IN  IF s.step_keyword_ctx = None /\ keyword \notin FIRST_LEVEL_STEP_KEYWORDS
        THEN Raise(s, "RadishFirstStepMustUseFirstLevelKeyword")
        ELSE Return([s EXCEPT !.step_keyword_ctx = ctx, !.step_id = @ + 1],
                    Step(s.step_id, ctx, keyword, text, doc_string, data_table,
                         s.featurefile_path, keyword_line))

\* scenario leaving the scenario-id counter as it is
scenario_keeping_scenario_id(s, subtree) ==
    LET tags == takewhile("Tag", subtree)
        rest == From(subtree, Len(tags))
        short_description == rest[1]
        steps == Tail(rest)
    IN  Return([s EXCEPT !.step_id = 1,
                         !.step_keyword_ctx = None],
               Scenario(s.scenario_id, short_description, tags,
                        s.featurefile_path, short_description.line, steps))

scenario(s, subtree) ==
    LET tags == takewhile("Tag", subtree)
        rest == From(subtree, Len(tags))
        short_description == rest[1]
        steps == Tail(rest)
    IN  Return([s EXCEPT !.scenario_id = @ + 1,
                         !.step_id = 1,
                         !.step_keyword_ctx = None],
               Scenario(s.scenario_id, short_description, tags,
                        s.featurefile_path, short_description.line, steps))

\* dict(zip(header, row)): a later cell of the same name replaces an earlier one
RECURSIVE dict_zip(_, _, _)
dict_zip(header, row, d) ==
    IF header = <<>> \/ row = <<>>
    THEN d
    ELSE dict_zip(Tail(header), Tail(row),
                  [k \in (DOMAIN d) \cup {Head(header)} |->
                      IF k = Head(header) THEN Head(row) ELSE d[k]])

EmptyDict == [k \in {} |-> None]

\* examples taking the header for a data row as well
examples_header_as_row(s, subtree) ==
    IF Cardinality({Len(subtree[i]) : i \in DOMAIN subtree}) > 1
    THEN Raise(s, "RadishScenarioOutlineExamplesInconsistentCellCount")
    ELSE Return(s, List([i \in DOMAIN subtree |->
                            dict_zip(Head(subtree), subtree[i], EmptyDict)]))

examples(s, subtree) ==
    IF Cardinality({Len(subtree[i]) : i \in DOMAIN subtree}) > 1
    THEN Raise(s, "RadishScenarioOutlineExamplesInconsistentCellCount")
    ELSE LET header == Head(subtree)
             rows == Tail(subtree)
         IN  Return(s, List([i \in DOMAIN rows |-> dict_zip(header, rows[i], EmptyDict)]))

\* scenario_outline reserving no id for the example rows
scenario_outline_single_id(s, subtree) ==
    LET tags == takewhile("Tag", subtree)
        short_description == subtree[Len(tags) + 1]
        steps == takewhile("Step", From(subtree, Len(tags) + 1))
        examples_table == From(subtree, Len(tags) + 1 + Len(steps))[1]
    IN  Return([s EXCEPT !.scenario_id = @ + 1, !.step_id = 1],
               ScenarioOutline(s.scenario_id, short_description, tags,
                               s.featurefile_path, short_description.line, steps,
                               examples_table))

scenario_outline(s, subtree) ==
    LET tags == takewhile("Tag", subtree)
        short_description == subtree[Len(tags) + 1]
        steps == takewhile("Step", From(subtree, Len(tags) + 1))
        examples_table == From(subtree, Len(tags) + 1 + Len(steps))[1]
    IN  Return([s EXCEPT !.scenario_id = @ + 1 + Len(examples_table.val),
                         !.step_id = 1],
               ScenarioOutline(s.scenario_id, short_description, tags,
                               s.featurefile_path, short_description.line, steps,
                               examples_table))

DigitValue(c) ==
    CASE c = "0" -> 0 [] c = "1" -> 1 [] c = "2" -> 2 [] c = "3" -> 3
      [] c = "4" -> 4 [] c = "5" -> 5 [] c = "6" -> 6 [] c = "7" -> 7
      [] c = "8" -> 8 [] c = "9" -> 9

\* int(text) of a run of decimal digits
RECURSIVE int(_, _)
int(digits, acc) ==
    IF digits = <<>> THEN acc
    ELSE int(Tail(digits), 10 * acc + DigitValue(Head(digits)))

iterations(s, subtree) == Return(s, PyInt(int(subtree[1].val, 0)))

\* scenario_loop reserving the iterations' ids but none for the loop itself
scenario_loop_iterations_only(s, subtree) ==
    LET tags == takewhile("Tag", subtree)
        short_description == subtree[Len(tags) + 1]
        steps == takewhile("Step", From(subtree, Len(tags) + 1))
        iterations_ == subtree[Len(tags) + 1 + Len(steps) + 1]
    IN  Return([s EXCEPT !.scenario_id = @ + iterations_.val, !.step_id = 1],
               ScenarioLoop(s.scenario_id, short_description, tags,
                            s.featurefile_path, short_description.line, steps,
                            iterations_))

scenario_loop(s, subtree) ==
    LET tags == takewhile("Tag", subtree)
        short_description == subtree[Len(tags) + 1]
        steps == takewhile("Step", From(subtree, Len(tags) + 1))
        iterations_ == subtree[Len(tags) + 1 + Len(steps) + 1]
    IN  Return([s EXCEPT !.scenario_id = @ + 1 + iterations_.val,
                         !.step_id = 1],
               ScenarioLoop(s.scenario_id, short_description, tags,
                            s.featurefile_path, short_description.line, steps,
                            iterations_))

\* the truth value of a token or None: a token is a str, false when empty
bool(x) == x # None /\ x.val # <<>>

background_description_among_steps(s, subtree) ==
    LET short_description ==
            IF Len(subtree) = 0 THEN None
            ELSE IF subtree[1].type = "Step" THEN None
            ELSE subtree[1]
    IN  Return(s, Background(short_description, s.featurefile_path,
                             IF bool(short_description)
                             THEN short_description.line ELSE 0,
                             subtree))

background(s, subtree) ==
    LET short_description ==
            IF Len(subtree) = 0 THEN None
            ELSE IF subtree[1].type = "Step" THEN None
            ELSE subtree[1]
        steps ==
            IF Len(subtree) = 0 THEN <<>>
            ELSE IF subtree[1].type = "Step" THEN subtree
            ELSE Tail(subtree)
    IN  Return(s, Background(short_description, s.featurefile_path,
                             IF bool(short_description)
                             THEN short_description.line ELSE 0,
                             steps))

tag(s, subtree) ==
    LET tag_name == subtree[1]
    IN  Return(s, Tag(Str(tag_name.val), s.featurefile_path, tag_name.line))

start(s, subtree) ==
    IF Len(subtree) > 0 THEN Return(s, subtree[1]) ELSE Return(s, None)

\* rule making no set_rule call
rule_without_set_rule(s, subtree) ==
    LET short_description == subtree[1]
        scenarios == IF Len(subtree) > 1 THEN From(subtree, 1) ELSE <<>>
        rule_ == Rule(short_description, s.featurefile_path,
                      short_description.line, scenarios)
    IN  ReturnCalling(s, rule_, <<>>)

rule(s, subtree) ==
    LET short_description == subtree[1]
        scenarios == IF Len(subtree) > 1 THEN From(subtree, 1) ELSE <<>>
        rule_ == Rule(short_description, s.featurefile_path,
                      short_description.line, scenarios)
    IN  ReturnCalling(s, rule_,
            [i \in DOMAIN scenarios |-> SetterCall("set_rule", scenarios[i], rule_)])

description(s, description_lines) ==
    Return(s, List([i \in DOMAIN description_lines |->
                       Str(description_lines[i].val)]))

\* _expand_background_and_scenarios finding no Background
_expand_without_background(s, scenarios) ==
    [background |-> None, scenarios |-> scenarios]

\* scenarios is a list: isinstance(scenarios, Background) and
\* isinstance(scenarios, Scenario) are false
_expand_background_and_scenarios(s, scenarios) ==
    IF scenarios # <<>> /\ scenarios[1].type = "Background"
    THEN [background |-> scenarios[1], scenarios |-> Tail(scenarios)]
    ELSE [background |-> None, scenarios |-> scenarios]

\* feature_body putting the DefaultRule after the explicit Rules
feature_body_default_rule_last(s, subtree) ==
    LET description_ == subtree[1]
        expanded == _expand_background_and_scenarios(s, Tail(subtree))
        background_ == expanded.background
        scenarios == expanded.scenarios
        scenarios_for_default_rule == takewhile_not("Rule", scenarios)
        default_rule ==
            DefaultRule(scenarios_for_default_rule[1].path,
                        scenarios_for_default_rule[1].line,
                        scenarios_for_default_rule)
        rules ==
            IF scenarios_for_default_rule # <<>>
            THEN From(scenarios, Len(scenarios_for_default_rule)) \o <<default_rule>>
            ELSE From(scenarios, Len(scenarios_for_default_rule))
    IN  ReturnCalling(s, Tuple(<<description_, background_, List(rules)>>),
            (IF scenarios_for_default_rule # <<>>
             THEN [i \in DOMAIN scenarios_for_default_rule |->
                      SetterCall("set_rule", scenarios_for_default_rule[i],
                                 default_rule)]
             ELSE <<>>)
            \o [i \in DOMAIN rules |->
                    SetterCall("set_background", rules[i], background_)])

feature_body(s, subtree) ==
    LET description_ == subtree[1]
        expanded == _expand_background_and_scenarios(s, Tail(subtree))
        background_ == expanded.background
        scenarios == expanded.scenarios
        scenarios_for_default_rule == takewhile_not("Rule", scenarios)
        default_rule ==
            DefaultRule(scenarios_for_default_rule[1].path,
                        scenarios_for_default_rule[1].line,
                        scenarios_for_default_rule)
        rules ==
            IF scenarios_for_default_rule # <<>>
            THEN <<default_rule>> \o From(scenarios, Len(scenarios_for_default_rule))
            ELSE From(scenarios, Len(scenarios_for_default_rule))
    IN  ReturnCalling(s, Tuple(<<description_, background_, List(rules)>>),
            (IF scenarios_for_default_rule # <<>>
             THEN [i \in DOMAIN scenarios_for_default_rule |->
                      SetterCall("set_rule", scenarios_for_default_rule[i],
                                 default_rule)]
             ELSE <<>>)
            \o [i \in DOMAIN rules |->
                    SetterCall("set_background", rules[i], background_)])

feature(s, subtree) ==
    LET tags == takewhile("Tag", subtree)
        short_description == subtree[Len(tags) + 1]
        body == IF Len(subtree) > Len(tags) + 1
                THEN From(subtree, Len(tags) + 1)[1].val
                ELSE <<None, None, List(<<>>)>>
        description_ == body[1]
        background_ == body[2]
        rules == body[3].val
        feature_ == Feature(s.feature_id, short_description, description_,
                            tags, s.featurefile_path,
                            short_description.line, background_, rules)
    IN  ReturnCalling(s, feature_,
            [i \in DOMAIN rules |-> SetterCall("set_feature", rules[i], feature_)])

------------------------------------------------------------------------------
\* The inputs of a traversal

\* the files of a run, in the order in which they are parsed
FeatureFiles ==
    <<[path |-> "a.feature", id |-> 1,
       text |-> <<"Feature: a", "\n", "  Scenario: s", "\n">>],
      [path |-> "b.feature", id |-> 2,
       text |-> <<"Feature: b", "\n", "\n", "  Scenario: t">>],
      [path |-> "c.feature", id |-> 3,
       text |-> <<>>]>>

NextFile == FeatureFiles[(files % Len(FeatureFiles)) + 1]

Keywords == {"Given", "When", "And", "But"}

\* the keyword as the grammar's token holds it, with the blank after it
KeywordTokens == {<<k, " ">> : k \in Keywords}

Cell(name) == Str(<<name>>)

\* a table of r rows, each of c cells
UniformTable(r, c) == [i \in 1..r |-> [j \in 1..c |-> Cell("x")]]

RaggedTable == <<<<Cell("x"), Cell("x")>>, <<Cell("x")>>>>

DataTables == {UniformTable(1, 1), RaggedTable}

\* a header alone, a header and two data rows, rows of unequal length
ExampleTables == {UniformTable(1, 1), UniformTable(3, 1), RaggedTable}

\* "0" and "02"
IterationTokens == {<<"0">>, <<"0", "2">>}

------------------------------------------------------------------------------
\* One traversal: a transformer and the reduced values not yet consumed

Main == [self |-> self, children |-> children, pending |-> pending,
         ret |-> ret, raised |-> raised]

\* the traversal t after a handler call with outcome r that leaves the
\* children ch and the pending values pd to the parent
Outcome(t, r, ch, pd) ==
    IF r.raised # None
    THEN [t EXCEPT !.self = r.self, !.ret = None, !.raised = r.raised]
    ELSE [self |-> r.self, children |-> ch, pending |-> pd,
          ret |-> r.ret, raised |-> None]

Set(t) ==
    /\ self' = t.self
    /\ children' = t.children
    /\ pending' = t.pending
    /\ ret' = t.ret
    /\ raised' = t.raised

Called(op, subtree) ==
    /\ call' = [op |-> op, subtree |-> subtree]
    /\ files' = files
    /\ UNCHANGED <<nodes, setters>>

\* a traversal that goes on after an error
RunningAfterAnError == files > 0

Running == files > 0 /\ raised = None /\ twin.raised = None

NSteps(ch) == Cardinality({i \in DOMAIN ch : ch[i].type = "Step"})

NTags(ch) == Cardinality({i \in DOMAIN ch : ch[i].type = "Tag"})

NDataTables(ch) ==
    Cardinality({i \in DOMAIN ch : ch[i].type = "Step" /\ ch[i].data_table # None})

\* no traversal is under way: the last one raised, or it ended with the
\* file's last scenario/background
Idle == raised # None \/ twin.raised # None \/ (children = <<>> /\ pending = <<>>)

\* Source lines: every scenario/background takes a block of lines, its
\* header on the first and each tag, step, examples or iterations token on a
\* line of its own after it
BlockLines == MaxTags + MaxSteps + 2

\* the lines before the first block: one for each of the feature's tags, its
\* header, its description and the Rule headers read so far
FeatureLines ==
    IF nodes = <<>> THEN 0
    ELSE 1 + Cardinality({i \in DOMAIN nodes :
                            nodes[i].type \in {"Tag", "list", "Token", "Rule"}})

HeaderLine == FeatureLines + built * BlockLines + 1

TokenLine == HeaderLine + 1 + Len(children)

ShortDescription == Token(<<"Simple">>, HeaderLine)

Init ==
    /\ self = RadishGherkinTransformer
    /\ children = <<>>
    /\ pending = <<>>
    /\ ret = None
    /\ raised = None
    /\ twin = [self |-> RadishGherkinTransformer, children |-> <<>>,
               pending |-> <<>>, ret |-> None, raised |-> None]
    /\ call = [op |-> "__init__", subtree |-> <<>>]
    /\ built = 0
    /\ files = 0
    /\ nodes = <<>>
    /\ setters = <<>>

Fresh(t) == [t EXCEPT !.children = <<>>, !.pending = <<>>, !.raised = None]

Prepare ==
    LET f == NextFile
    IN  /\ files < MaxFiles
        /\ Idle
        /\ Set(Outcome(Fresh(Main), prepare(self, f.path, f.text, f.id), <<>>, <<>>))
        /\ twin' = Outcome(Fresh(twin),
                           prepare(RadishGherkinTransformer, f.path, f.text, f.id),
                           <<>>, <<>>)
        /\ call' = [op |-> "prepare", subtree |-> <<f.path, f.text, f.id>>]
        /\ built' = 0
        /\ files' = files + 1
        /\ UNCHANGED <<nodes, setters>>

TagOn(t, subtree) ==
    LET r == tag(t.self, subtree)
    IN  Outcome(t, r, Append(t.children, r.ret), t.pending)

TagReduce ==
    /\ Running
    /\ pending = <<>>
    /\ built < MaxBuilt
    /\ NSteps(children) = 0
    /\ NTags(children) < MaxTags
    /\ LET subtree == <<Token(<<"wip">>, TokenLine)>>
       IN  /\ Set(TagOn(Main, subtree))
           /\ twin' = TagOn(twin, subtree)
           /\ Called("tag", subtree)
    /\ UNCHANGED built

StepDataTableOn(t, subtree) ==
    LET r == step_data_table(t.self, subtree)
    IN  Outcome(t, r, t.children, <<r.ret>>)

StepDataTable ==
    /\ Running
    /\ pending = <<>>
    /\ built < MaxBuilt
    /\ NSteps(children) < MaxSteps
    /\ NDataTables(children) < MaxDataTables
    /\ \E table \in DataTables :
        /\ Set(StepDataTableOn(Main, table))
        /\ twin' = StepDataTableOn(twin, table)
        /\ Called("step_data_table", table)
    /\ UNCHANGED built

StepArgumentsOn(t) ==
    LET r == step_arguments(t.self, t.pending)
    IN  Outcome(t, r, t.children, <<r.ret>>)

StepArguments ==
    /\ Running
    /\ pending = <<>> \/ call.op = "step_data_table"
    /\ built < MaxBuilt
    /\ NSteps(children) < MaxSteps
    /\ Set(StepArgumentsOn(Main))
    /\ twin' = StepArgumentsOn(twin)
    /\ Called("step_arguments", pending)
    /\ UNCHANGED built

StepSubtree(t, keyword) ==
    <<Token(keyword, TokenLine), Token(<<"something">>, TokenLine), t.pending[1]>>

StepOn(t, keyword) ==
    LET r == step(t.self, StepSubtree(t, keyword))
    IN  Outcome(t, r, Append(t.children, r.ret), <<>>)

StepReduce ==
    /\ Running
    /\ call.op = "step_arguments"
    /\ \E keyword \in KeywordTokens :
        /\ Set(StepOn(Main, keyword))
        /\ twin' = StepOn(twin, keyword)
        /\ Called("step", StepSubtree(Main, keyword))
    /\ UNCHANGED built

\* a scenario/background reduction consumes the children and ends the
\* scenario/background
Closed == built' = built + 1

ScenarioSubtree(t) ==
    takewhile("Tag", t.children) \o <<ShortDescription>>
        \o From(t.children, NTags(t.children)) \o t.pending

ScenarioOn(t) ==
    Outcome(t, scenario(t.self, ScenarioSubtree(t)), <<>>, <<>>)

ScenarioReduce ==
    /\ Running
    /\ pending = <<>>
    /\ built < MaxBuilt
    /\ Set(ScenarioOn(Main))
    /\ twin' = ScenarioOn(twin)
    /\ Called("scenario", ScenarioSubtree(Main))
    /\ Closed

ExamplesOn(t, subtree) ==
    LET r == examples(t.self, subtree)
    IN  Outcome(t, r, t.children, <<r.ret>>)

Examples ==
    /\ Running
    /\ pending = <<>>
    /\ built < MaxBuilt
    /\ \E table \in ExampleTables :
        /\ Set(ExamplesOn(Main, table))
        /\ twin' = ExamplesOn(twin, table)
        /\ Called("examples", table)
    /\ UNCHANGED built

ScenarioOutlineOn(t) ==
    Outcome(t, scenario_outline(t.self, ScenarioSubtree(t)), <<>>, <<>>)

ScenarioOutlineReduce ==
    /\ Running
    /\ call.op = "examples"
    /\ Set(ScenarioOutlineOn(Main))
    /\ twin' = ScenarioOutlineOn(twin)
    /\ Called("scenario_outline", ScenarioSubtree(Main))
    /\ Closed

IterationsOn(t, subtree) ==
    LET r == iterations(t.self, subtree)
    IN  Outcome(t, r, t.children, <<r.ret>>)

Iterations ==
    /\ Running
    /\ pending = <<>>
    /\ built < MaxBuilt
    /\ \E digits \in IterationTokens :
        LET subtree == <<Token(digits, TokenLine)>>
        IN  /\ Set(IterationsOn(Main, subtree))
            /\ twin' = IterationsOn(twin, subtree)
            /\ Called("iterations", subtree)
    /\ UNCHANGED built

ScenarioLoopOn(t) ==
    Outcome(t, scenario_loop(t.self, ScenarioSubtree(t)), <<>>, <<>>)

ScenarioLoopReduce ==
    /\ Running
    /\ call.op = "iterations"
    /\ Set(ScenarioLoopOn(Main))
    /\ twin' = ScenarioLoopOn(twin)
    /\ Called("scenario_loop", ScenarioSubtree(Main))
    /\ Closed

\* a Background: with a short description, or anonymous
BackgroundSubtree(t, named) ==
    (IF named THEN <<ShortDescription>> ELSE <<>>) \o t.children

BackgroundOn(t, named) ==
    Outcome(t, background(t.self, BackgroundSubtree(t, named)), <<>>, <<>>)

BackgroundReduce ==
    /\ Running
    /\ pending = <<>>
    /\ built = 0
    /\ NTags(children) = 0
    /\ \E named \in BOOLEAN :
        /\ Set(BackgroundOn(Main, named))
        /\ twin' = BackgroundOn(twin, named)
        /\ Called("background", BackgroundSubtree(Main, named))
    /\ Closed

Next ==
    \/ Prepare
    \/ TagReduce
    \/ StepDataTable
    \/ StepArguments
    \/ StepReduce
    \/ ScenarioReduce
    \/ Examples
    \/ ScenarioOutlineReduce
    \/ Iterations
    \/ ScenarioLoopReduce
    \/ BackgroundReduce

Spec == Init /\ [][Next]_vars

------------------------------------------------------------------------------
\* The traversal of a whole feature file whose scenarios have no steps: the
\* feature's tags and description, a Background, up to MaxBuilt
\* scenarios/backgrounds, up to MaxRules Rules, then feature_body, feature
\* and start

HasNode(type) == \E i \in DOMAIN nodes : nodes[i].type = type

\* the traversal is between the description and the end of the feature body
InBody == HasNode("list") /\ ~HasNode("tuple") /\ ~HasNode("Feature")

Traversing == Running /\ call.op # "start"

\* a handler call with outcome r that leaves the nodes left to the parent
Reduced(op, subtree, r, left) ==
    /\ Set(Outcome(Main, r, <<>>, <<>>))
    /\ call' = [op |-> op, subtree |-> subtree]
    /\ nodes' = IF r.raised = None THEN left ELSE nodes
    /\ setters' = IF "calls" \in DOMAIN r THEN setters \o r.calls ELSE setters
    /\ UNCHANGED <<twin, files>>

FeaturePrepare ==
    LET f == NextFile
    IN  /\ files < MaxFiles
        /\ call.op \in {"__init__", "start"} \/ raised # None
        /\ Set(Outcome(Fresh(Main), prepare(self, f.path, f.text, f.id), <<>>, <<>>))
        /\ call' = [op |-> "prepare", subtree |-> <<f.path, f.text, f.id>>]
        /\ built' = 0
        /\ files' = files + 1
        /\ nodes' = <<>>
        /\ setters' = <<>>
        /\ UNCHANGED twin

FeatureTagReduce ==
    /\ Traversing
    /\ \A i \in DOMAIN nodes : nodes[i].type = "Tag"
    /\ Len(nodes) < MaxTags
    /\ LET subtree == <<Token(<<"wip">>, Len(nodes) + 1)>>
           r == tag(self, subtree)
       IN  Reduced("tag", subtree, r, Append(nodes, r.ret))
    /\ UNCHANGED built

Descriptions == {<<>>, <<Token(<<"text">>, Len(nodes) + 2)>>}

DescriptionReduceEnabled ==
    /\ Traversing
    /\ \A i \in DOMAIN nodes : nodes[i].type = "Tag"

DescriptionReduce ==
    /\ DescriptionReduceEnabled
    /\ \E description_lines \in Descriptions :
        LET r == description(self, description_lines)
        IN  Reduced("description", description_lines, r, Append(nodes, r.ret))
    /\ UNCHANGED built

FeatureBackgroundReduce ==
    /\ Traversing
    /\ InBody
    /\ nodes[Len(nodes)].type = "list"
    /\ built < MaxBuilt
    /\ \E named \in BOOLEAN :
        LET subtree == BackgroundSubtree(Main, named)
            r == background(self, subtree)
        IN  Reduced("background", subtree, r, Append(nodes, r.ret))
    /\ Closed

\* a scenario may follow: as one of the leading scenarios or under the Rule
\* whose header was read last
ScenarioMayFollow ==
    /\ Traversing
    /\ InBody
    /\ HasNode("Token") \/ ~HasNode("Rule")
    /\ built < MaxBuilt

FeatureScenarioReduce ==
    /\ ScenarioMayFollow
    /\ pending = <<>>
    /\ LET subtree == ScenarioSubtree(Main)
           r == scenario(self, subtree)
       IN  Reduced("scenario", subtree, r, Append(nodes, r.ret))
    /\ Closed

FeatureExamples ==
    /\ ScenarioMayFollow
    /\ pending = <<>>
    /\ \E table \in ExampleTables :
        /\ Set(ExamplesOn(Main, table))
        /\ Called("examples", table)
    /\ UNCHANGED <<twin, built>>

FeatureScenarioOutlineReduceEnabled ==
    /\ Traversing
    /\ call.op = "examples"

FeatureScenarioOutlineReduce ==
    /\ FeatureScenarioOutlineReduceEnabled
    /\ LET subtree == ScenarioSubtree(Main)
           r == scenario_outline(self, subtree)
       IN  Reduced("scenario_outline", subtree, r, Append(nodes, r.ret))
    /\ Closed

FeatureIterations ==
    /\ ScenarioMayFollow
    /\ pending = <<>>
    /\ \E digits \in IterationTokens :
        LET subtree == <<Token(digits, TokenLine)>>
        IN  /\ Set(IterationsOn(Main, subtree))
            /\ Called("iterations", subtree)
    /\ UNCHANGED <<twin, built>>

FeatureScenarioLoopReduceEnabled ==
    /\ Traversing
    /\ call.op = "iterations"

FeatureScenarioLoopReduce ==
    /\ FeatureScenarioLoopReduceEnabled
    /\ LET subtree == ScenarioSubtree(Main)
           r == scenario_loop(self, subtree)
       IN  Reduced("scenario_loop", subtree, r, Append(nodes, r.ret))
    /\ Closed

\* a step's data table with rows of different lengths
FailingStepDataTable ==
    /\ ScenarioMayFollow
    /\ pending = <<>>
    /\ \E table \in DataTables :
        /\ step_data_table(self, table).raised # None
        /\ Set(StepDataTableOn(Main, table))
        /\ Called("step_data_table", table)
    /\ UNCHANGED <<twin, built>>

\* the arguments of a scenario's first step: none
FeatureStepArguments ==
    /\ ScenarioMayFollow
    /\ pending = <<>>
    /\ Set(StepArgumentsOn(Main))
    /\ Called("step_arguments", pending)
    /\ UNCHANGED <<twin, built>>

\* a scenario's first step, with a keyword that the step refuses
FailingStepEnabled ==
    /\ Traversing
    /\ call.op = "step_arguments"
    /\ \E keyword \in KeywordTokens :
        step(self, StepSubtree(Main, keyword)).raised # None

FailingStep ==
    /\ FailingStepEnabled
    /\ \E keyword \in KeywordTokens :
        /\ step(self, StepSubtree(Main, keyword)).raised # None
        /\ Set(StepOn(Main, keyword))
        /\ Called("step", StepSubtree(Main, keyword))
    /\ UNCHANGED <<twin, built>>

\* the header of a Rule is read: its short description waits for rule()
RuleHeader ==
    /\ Traversing
    /\ InBody
    /\ pending = <<>>
    /\ ~HasNode("Token")
    /\ Cardinality({i \in DOMAIN nodes : nodes[i].type = "Rule"}) < MaxRules
    /\ nodes' = Append(nodes, ShortDescription)
    /\ UNCHANGED <<self, children, pending, ret, raised, twin, call, built,
                   files, setters>>

RuleReduceEnabled ==
    /\ Traversing
    /\ pending = <<>>
    /\ HasNode("Token")

RuleReduce ==
    /\ RuleReduceEnabled
    /\ LET header == CHOOSE i \in DOMAIN nodes : nodes[i].type = "Token"
           subtree == From(nodes, header - 1)
           r == rule(self, subtree)
       IN  Reduced("rule", subtree, r, Append(SubSeq(nodes, 1, header - 1), r.ret))
    /\ UNCHANGED built

FeatureBodyReduceEnabled ==
    /\ Traversing
    /\ InBody
    /\ pending = <<>>
    /\ ~HasNode("Token")

FeatureBodyReduce ==
    /\ FeatureBodyReduceEnabled
    /\ LET tags == takewhile("Tag", nodes)
           subtree == From(nodes, Len(tags))
           r == feature_body(self, subtree)
       IN  Reduced("feature_body", subtree, r, Append(tags, r.ret))
    /\ UNCHANGED built

FeatureReduceEnabled ==
    /\ Traversing
    /\ \A i \in DOMAIN nodes : nodes[i].type \in {"Tag", "tuple"}

FeatureReduce ==
    /\ FeatureReduceEnabled
    /\ LET tags == takewhile("Tag", nodes)
           subtree == tags \o <<Token(<<"Simple">>, Len(tags) + 1)>>
                          \o From(nodes, Len(tags))
           r == feature(self, subtree)
       IN  Reduced("feature", subtree, r, <<r.ret>>)
    /\ UNCHANGED built

\* the root: with the Feature, or with no child when the file holds none
StartReduceEnabled ==
    /\ Traversing
    /\ HasNode("Feature") \/ call.op = "prepare"

StartReduce ==
    /\ StartReduceEnabled
    /\ Reduced("start", nodes, start(self, nodes), <<>>)
    /\ UNCHANGED built

\* a step of the traversal of the current file
TraversalStep ==
    \/ FeatureTagReduce
    \/ DescriptionReduce
    \/ FeatureBackgroundReduce
    \/ FeatureScenarioReduce
    \/ FeatureExamples
    \/ FeatureScenarioOutlineReduce
    \/ FeatureIterations
    \/ FeatureScenarioLoopReduce
    \/ FailingStepDataTable
    \/ FeatureStepArguments
    \/ FailingStep
    \/ RuleHeader
    \/ RuleReduce
    \/ FeatureBodyReduce
    \/ FeatureReduce
    \/ StartReduce

NextFeature == FeaturePrepare \/ TraversalStep

SpecFeature == Init /\ [][NextFeature]_vars

------------------------------------------------------------------------------
\* The table reductions on their own: every table of up to MaxTableRows rows
\* of up to MaxCells cells, reduced by step_data_table and by examples

Cells == {Cell("a"), Cell("b")}

Rows == UNION {[1..n -> Cells] : n \in 1..MaxCells}

Tables == UNION {[1..n -> Rows] : n \in 1..MaxTableRows}

InitTables ==
    /\ self = RadishGherkinTransformer
    /\ children = <<>>
    /\ pending = <<>>
    /\ ret = None
    /\ raised = None
    /\ twin = [self |-> RadishGherkinTransformer, children |-> <<>>,
               pending |-> <<>>, ret |-> None, raised |-> None]
    /\ \E table \in Tables : call = [op |-> "table", subtree |-> table]
    /\ built = 0
    /\ files = 0
    /\ nodes = <<>>
    /\ setters = <<>>

TableStepDataTable ==
    /\ call.op = "table"
    /\ Set(StepDataTableOn(Main, call.subtree))
    /\ call' = [op |-> "step_data_table", subtree |-> call.subtree]
    /\ UNCHANGED <<twin, built, files, nodes, setters>>

TableExamples ==
    /\ call.op = "table"
    /\ Set(ExamplesOn(Main, call.subtree))
    /\ call' = [op |-> "examples", subtree |-> call.subtree]
    /\ UNCHANGED <<twin, built, files, nodes, setters>>

NextTables == TableStepDataTable \/ TableExamples

SpecTables == InitTables /\ [][NextTables]_vars

------------------------------------------------------------------------------
\* The doc-string reduction on its own: every file of up to MaxDocLines lines,
\* each an indent of up to MaxIndent blanks and tabs with or without a word
\* after it, and every run of lines of it as the doc string

Indents == UNION {[1..n -> Whitespace] : n \in 0..MaxIndent}

DocLines == {indent \o word \o <<"\n">> : indent \in Indents, word \in {<<>>, <<"a">>}}

DocTexts == UNION {{join(lines) : lines \in [1..n -> DocLines]} : n \in 1..MaxDocLines}

DocPrepare ==
    /\ call.op = "__init__"
    /\ \E text \in DocTexts :
        /\ Set(Outcome(Main, prepare(self, "a.feature", text, 1), <<>>, <<>>))
        /\ call' = [op |-> "prepare", subtree |-> <<"a.feature", text, 1>>]
    /\ files' = files + 1
    /\ UNCHANGED <<twin, built, nodes, setters>>

\* the tokens of a doc string on the lines first..last
DocStringSubtree(first, last) ==
    [i \in 1..(last - first + 1) |-> Token(<<"a">>, first + i - 1)]

StepDocStringOn(t, subtree) ==
    LET r == step_doc_string(t.self, subtree)
    IN  Outcome(t, r, t.children, <<r.ret>>)

StepDocString ==
    /\ call.op = "prepare"
    /\ \E first \in 1..Len(self.featurefile_contents) :
       \E last \in first..Len(self.featurefile_contents) :
        /\ Set(StepDocStringOn(Main, DocStringSubtree(first, last)))
        /\ Called("step_doc_string", DocStringSubtree(first, last))
    /\ UNCHANGED <<twin, built>>

NextDocString == DocPrepare \/ StepDocString

SpecDocString == Init /\ [][NextDocString]_vars

------------------------------------------------------------------------------
\* The handlers as functions of the transformer's attributes: after prepare(),
\* any handler is called on any subtree of a small set, in any order, the
\* returned value left in ret and not handed to a parent

\* the handler call op(subtree) with outcome r
Applied(op, subtree, r) ==
    /\ Running
    /\ call.op # "start"
    /\ Set(Outcome(Main, r, <<>>, <<>>))
    /\ Called(op, subtree)
    /\ UNCHANGED twin

FrameTag ==
    LET subtree == <<Token(<<"wip">>, TokenLine)>>
    IN  Applied("tag", subtree, tag(self, subtree)) /\ UNCHANGED built

FrameStepDataTable ==
    /\ \E table \in DataTables :
        Applied("step_data_table", table, step_data_table(self, table))
    /\ UNCHANGED built

FrameStepDocString ==
    /\ files > 0
    /\ \E first \in 1..Len(self.featurefile_contents) :
       \E last \in first..Len(self.featurefile_contents) :
        LET subtree == DocStringSubtree(first, last)
        IN  Applied("step_doc_string", subtree, step_doc_string(self, subtree))
    /\ UNCHANGED built

\* the argument lists of a step: none, a doc string, a data table, both
StepArgumentLists ==
    LET doc_string == Str(<<"a", "\n">>)
        data_table == List(UniformTable(1, 1))
    IN  {<<>>, <<doc_string>>, <<data_table>>, <<doc_string, data_table>>}

FrameStepArguments ==
    /\ \E subtree \in StepArgumentLists :
        Applied("step_arguments", subtree, step_arguments(self, subtree))
    /\ UNCHANGED built

FrameStep ==
    /\ files > 0
    /\ self.step_id <= MaxSteps
    /\ \E keyword \in KeywordTokens, arguments \in StepArgumentLists :
        LET subtree == <<Token(keyword, TokenLine), Token(<<"something">>, TokenLine),
                         step_arguments(self, arguments).ret>>
        IN  Applied("step", subtree, step(self, subtree))
    /\ UNCHANGED built

\* the steps of a scenario or background: none or one
FrameSteps ==
    {<<>>,
     <<Step(1, Str(<<"Given">>), Str(<<"Given">>), Token(<<"something">>, TokenLine),
            None, None, self.featurefile_path, TokenLine)>>}

FrameScenario ==
    /\ built < MaxBuilt
    /\ \E steps \in FrameSteps :
        LET subtree == <<ShortDescription>> \o steps
        IN  Applied("scenario", subtree, scenario(self, subtree))
    /\ Closed

FrameExamples ==
    /\ \E table \in ExampleTables :
        Applied("examples", table, examples(self, table))
    /\ UNCHANGED built

FrameScenarioOutline ==
    /\ built < MaxBuilt
    /\ \E steps \in FrameSteps, table \in ExampleTables :
        /\ examples(self, table).raised = None
        /\ LET subtree == <<ShortDescription>> \o steps \o <<examples(self, table).ret>>
           IN  Applied("scenario_outline", subtree, scenario_outline(self, subtree))
    /\ Closed

FrameIterations ==
    /\ \E digits \in IterationTokens :
        LET subtree == <<Token(digits, TokenLine)>>
        IN  Applied("iterations", subtree, iterations(self, subtree))
    /\ UNCHANGED built

FrameScenarioLoop ==
    /\ built < MaxBuilt
    /\ \E steps \in FrameSteps, digits \in IterationTokens :
        LET subtree == <<ShortDescription>> \o steps
                           \o <<iterations(self, <<Token(digits, TokenLine)>>).ret>>
        IN  Applied("scenario_loop", subtree, scenario_loop(self, subtree))
    /\ Closed

FrameBackground ==
    /\ built < MaxBuilt
    /\ \E steps \in FrameSteps, named \in BOOLEAN :
        LET subtree == (IF named THEN <<ShortDescription>> ELSE <<>>) \o steps
        IN  Applied("background", subtree, background(self, subtree))
    /\ Closed

\* the scenarios of a Rule or of a feature body: none or one
FrameScenarios == {<<>>, <<scenario(self, <<ShortDescription>>).ret>>}

FrameRule ==
    /\ files > 0
    /\ \E scenarios \in FrameScenarios :
        LET subtree == <<ShortDescription>> \o scenarios
        IN  Applied("rule", subtree, rule(self, subtree))
    /\ UNCHANGED built

FrameDescription ==
    /\ \E description_lines \in {<<>>, <<Token(<<"text">>, TokenLine)>>} :
        Applied("description", description_lines, description(self, description_lines))
    /\ UNCHANGED built

FrameFeatureBody ==
    /\ files > 0
    /\ \E named \in BOOLEAN, scenarios \in FrameScenarios, rules \in FrameScenarios :
        LET subtree == <<List(<<>>)>>
                           \o (IF named THEN <<background(self, <<ShortDescription>>).ret>>
                               ELSE <<>>)
                           \o scenarios
                           \o (IF rules = <<>> THEN <<>>
                               ELSE <<rule(self, <<ShortDescription>> \o rules).ret>>)
        IN  Applied("feature_body", subtree, feature_body(self, subtree))
    /\ UNCHANGED built

FrameFeature ==
    /\ files > 0
    /\ \E tags \in {<<>>, <<tag(self, <<Token(<<"wip">>, 1)>>).ret>>},
          with_body \in BOOLEAN :
        LET subtree == tags \o <<ShortDescription>>
                           \o (IF with_body
                               THEN <<feature_body(self, <<List(<<>>)>>).ret>>
                               ELSE <<>>)
        IN  Applied("feature", subtree, feature(self, subtree))
    /\ UNCHANGED built

FrameStart ==
    /\ files > 0
    /\ \E subtree \in {<<>>, <<feature(self, <<ShortDescription>>).ret>>} :
        Applied("start", subtree, start(self, subtree))
    /\ UNCHANGED built

NextFrame ==
    \/ FeaturePrepare
    \/ FrameTag
    \/ FrameStepDataTable
    \/ FrameStepDocString
    \/ FrameStepArguments
    \/ FrameStep
    \/ FrameScenario
    \/ FrameExamples
    \/ FrameScenarioOutline
    \/ FrameIterations
    \/ FrameScenarioLoop
    \/ FrameBackground
    \/ FrameRule
    \/ FrameDescription
    \/ FrameFeatureBody
    \/ FrameFeature
    \/ FrameStart

SpecFrame == Init /\ [][NextFrame]_vars

------------------------------------------------------------------------------
\* Properties

IsReduction == {"scenario", "scenario_outline", "scenario_loop", "background"}

\* C1: the steps owned by every reduced Background, Scenario, Scenario
\* Outline and Scenario Loop carry the ids 1, 2, ..., n in order: the step
\* counter restarts at 1 at every scenario/background boundary.
C1_StepIdsDenseFromOne ==
    call.op \in IsReduction =>
        \A i \in DOMAIN ret.steps : ret.steps[i].id = i

\* the keyword of the step() call just made
CalledKeyword == Str(strip(call.subtree[1].val))

\* the step() call just made was the first of its scenario/background
CalledFirstStep ==
    /\ call.op = "step"
    /\ NSteps(children) = (IF raised = None THEN 1 ELSE 0)

\* C2: whenever the first step reduced for a scenario or background has a
\* second-level keyword (And/But), step() raises
\* FirstStepMustUseFirstLevelKeyword, whatever was reduced before it.
C2_FirstStepSecondLevelRaises ==
    (CalledFirstStep /\ CalledKeyword \in SECOND_LEVEL_STEP_KEYWORDS) =>
        raised = Exception("RadishFirstStepMustUseFirstLevelKeyword")

IsFirstLevelStep(x) ==
    x.type = "Step" /\ x.used_keyword \in FIRST_LEVEL_STEP_KEYWORDS

\* C3: the resolved context keyword of every reduced second-level step (And/But)
\* is the literal keyword of the nearest preceding first-level step of the
\* same scenario/background.
C3_ContextFromSameScenario ==
    \A i \in DOMAIN children :
        (children[i].type = "Step"
            /\ children[i].used_keyword \in SECOND_LEVEL_STEP_KEYWORDS) =>
        \E j \in 1..(i - 1) :
            /\ IsFirstLevelStep(children[j])
            /\ \A k \in (j + 1)..(i - 1) : ~IsFirstLevelStep(children[k])
            /\ children[i].keyword = children[j].used_keyword

\* C4: after prepare(path, raw_text, feature_id), from any state, step id = 1,
\* scenario id = 1, the step-keyword context is cleared, the feature id is
\* the given id and the cached source lines are the lines of raw_text.
C4_PrepareResetsContext ==
    call.op = "prepare" =>
        /\ self.step_id = 1
        /\ self.scenario_id = 1
        /\ self.step_keyword_ctx = None
        /\ self.feature_id = call.subtree[3]
        /\ self.featurefile_contents = splitlines(call.subtree[2], <<>>)

\* C5: a traversal started by prepare() yields the same outcome (the same
\* returned objects with their ids and context keywords, the same error or
\* none) on an instance that processed other files before as on one that
\* did not.
C5_SameOutcomeOnReuse ==
    files > 0 => (ret = twin.ret /\ raised = twin.raised)

\* C6: a Scenario Outline reduction with N example data rows (header excluded)
\* gives the outline the current scenario id S, leaves the scenario-id counter
\* at S + 1 + N and the step counter at 1.
C6_OutlineReservesIds ==
    [][(call.op = "examples" /\ call'.op = "scenario_outline") =>
        /\ ret'.id = self.scenario_id
        /\ self'.scenario_id = self.scenario_id + 1 + (Len(call.subtree) - 1)
        /\ self'.step_id = 1]_vars

C6_Witness ==
    /\ call.op = "scenario_outline"
    /\ Len(ret.examples.val) = 2
    /\ Len(ret.steps) > 0
    /\ ret.id = 2
    /\ self.scenario_id = 5

\* C7: a Scenario Loop reduction with iteration count K gives the loop the
\* current scenario id S, leaves the scenario-id counter at S + 1 + K and the
\* step counter at 1.
C7_LoopReservesIds ==
    [][(call.op = "iterations" /\ call'.op = "scenario_loop") =>
        /\ ret'.id = self.scenario_id
        /\ self'.scenario_id = self.scenario_id + 1 + pending[1].val
        /\ self'.step_id = 1]_vars

C7_Witness ==
    /\ call.op = "scenario_loop"
    /\ ret.iterations.val = 2
    /\ Len(ret.steps) > 0
    /\ ret.id = 2
    /\ self.scenario_id = 5

\* two rows of the table have different cell counts
Inconsistent(table) ==
    \E i, j \in DOMAIN table : Len(table[i]) # Len(table[j])

\* C8: step_data_table raises StepDataTableInconsistentCellCount exactly when
\* two rows differ in cell count, examples raises
\* ScenarioOutlineExamplesInconsistentCellCount exactly when two rows (header
\* included) do, and a table of equal rows is returned without error.
C8_InconsistentCellCount ==
    /\ call.op = "step_data_table" =>
        IF Inconsistent(call.subtree)
        THEN raised = Exception("RadishStepDataTableInconsistentCellCount")
        ELSE raised = None /\ ret = List(call.subtree)
    /\ call.op = "examples" =>
        IF Inconsistent(call.subtree)
        THEN raised = Exception("RadishScenarioOutlineExamplesInconsistentCellCount")
        ELSE raised = None /\ ret.type = "list"

C8_Witness ==
    /\ call.op = "step_data_table"
    /\ Len(call.subtree) = 3
    /\ Len(call.subtree[1]) = 2
    /\ Len(call.subtree[2]) = 2
    /\ Len(call.subtree[3]) = 1
    /\ raised = Exception("RadishStepDataTableInconsistentCellCount")

\* examples has returned the mappings of a table of equal rows
ExamplesReturned == call.op = "examples" /\ raised = None

\* the last column of the header named like column j
LastNamed(header, j) ==
    CHOOSE k \in DOMAIN header :
        /\ header[k] = header[j]
        /\ \A l \in DOMAIN header : header[l] = header[j] => l <= k

\* C9, as amended: for a table of equal rows with header h and data rows
\* r_1..r_n, examples returns n mappings in row order; the i-th has one entry
\* for every distinct header name and maps h[j] to the cell of r_i in the
\* last column named h[j].
C9_MappingLastColumnWins ==
    ExamplesReturned =>
        LET header == Head(call.subtree)
            rows == Tail(call.subtree)
        IN  /\ Len(ret.val) = Len(rows)
            /\ \A i \in DOMAIN rows :
                /\ DOMAIN ret.val[i] = {header[j] : j \in DOMAIN header}
                /\ \A j \in DOMAIN header :
                    ret.val[i][header[j]] = rows[i][LastNamed(header, j)]

C9_Witness ==
    /\ ExamplesReturned
    /\ call.subtree = <<<<Cell("a"), Cell("a")>>,
                        <<Cell("a"), Cell("b")>>,
                        <<Cell("b"), Cell("a")>>>>
    /\ Len(ret.val) = 2

\* C9: for a table of equal rows with header h (length m) and data rows
\* r_1..r_n, examples returns n mappings in row order and the i-th maps h[j] to
\* r_i[j] for every column j, one entry per header cell.
C9_MappingEveryColumn ==
    ExamplesReturned =>
        LET header == Head(call.subtree)
            rows == Tail(call.subtree)
        IN  /\ Len(ret.val) = Len(rows)
            /\ \A i \in DOMAIN rows :
                /\ \A j \in DOMAIN header : ret.val[i][header[j]] = rows[i][j]
                /\ Cardinality(DOMAIN ret.val[i]) = Len(header)

\* the exception carries the value among its arguments
Carries(exception, value) ==
    \E i \in DOMAIN exception.args : exception.args[i] = value

SourceLines == 1..((MaxBuilt + 1) * BlockLines)

\* C10: every error raised by the builder carries the path of the feature
\* file being built and a source line.
C10_ErrorsCarryPathAndLine ==
    raised # None =>
        /\ Carries(raised, self.featurefile_path)
        /\ \E line \in SourceLines : Carries(raised, line)


\* C14: every reduced first-level step (Given/When/Then) has its own literal
\* keyword as resolved context keyword and leaves it as the transformer's
\* keyword context; the first scenario after prepare() has id 1 and, when all
\* its steps are first-level, they carry the ids 1..n.
C14_FirstLevelStepsAndFirstScenario ==
    /\ (call.op = "step" /\ raised = None
            /\ CalledKeyword \in FIRST_LEVEL_STEP_KEYWORDS) =>
        /\ ret.used_keyword = CalledKeyword
        /\ ret.keyword = CalledKeyword
        /\ self.step_keyword_ctx = CalledKeyword
    /\ (call.op = "scenario" /\ (built = 1 \/ ret.id = 1)
            /\ \A i \in DOMAIN ret.steps : IsFirstLevelStep(ret.steps[i])) =>
        /\ ret.id = 1
        /\ \A i \in DOMAIN ret.steps : ret.steps[i].id = i

\* C17: background() on no children gives an anonymous Background without
\* steps; on children starting with a Step an anonymous Background with all
\* children as its steps in order; otherwise the first child is the short
\* description and the rest are the steps. The line is 0 exactly when the
\* Background is anonymous and the description's line otherwise.
C17_BackgroundForms ==
    call.op = "background" =>
        LET subtree == call.subtree
        IN  /\ ret.type = "Background"
            /\ Len(subtree) = 0 =>
                    (ret.short_description = None /\ ret.steps = <<>>)
            /\ (Len(subtree) > 0 /\ subtree[1].type = "Step") =>
                    (ret.short_description = None /\ ret.steps = subtree)
            /\ (Len(subtree) > 0 /\ subtree[1].type # "Step") =>
                    /\ ret.short_description = subtree[1]
                    /\ ret.steps = Tail(subtree)
                    /\ ret.line = subtree[1].line
            /\ ret.line = 0 <=> ret.short_description = None

C17_Witness ==
    /\ call.op = "background"
    /\ ret.short_description # None
    /\ ret.line = ret.short_description.line
    /\ Len(ret.steps) = MaxSteps
    /\ files = 2


\* the source lines that the doc string of the step_doc_string() call spans
DocStringLines ==
    LET first == call.subtree[1].line
        last == call.subtree[Len(call.subtree)].line
    IN  [i \in 1..(last - first + 1) |-> self.featurefile_contents[first + i - 1]]

HasWord(line) == \E i \in DOMAIN line : line[i] \notin Whitespace \cup {"\n"}

\* the first n characters are blanks and tabs, the same in every line of
\* lines that holds a word
CommonIndent(lines, n) ==
    \A i, j \in DOMAIN lines :
        (HasWord(lines[i]) /\ HasWord(lines[j])) =>
            /\ n <= Len(lines[i])
            /\ \A k \in 1..n : lines[i][k] \in Whitespace /\ lines[i][k] = lines[j][k]

\* the length of the longest indent common to the lines that hold a word
CommonMargin(lines) ==
    CHOOSE n \in 0..(MaxIndent + 1) :
        CommonIndent(lines, n) /\ ~CommonIndent(lines, n + 1)

LineEnd(line) ==
    IF line # <<>> /\ line[Len(line)] = "\n" THEN <<"\n">> ELSE <<>>

\* C16 as amended: step_doc_string returns the source lines
\* start_line..end_line (1-based, inclusive) concatenated, where every line
\* holding a character other than blank and tab has lost the longest indent
\* common to those lines and every other line is reduced to its line end.
C16_DocStringDedented ==
    call.op = "step_doc_string" =>
        LET lines == DocStringLines
            margin == IF \E i \in DOMAIN lines : HasWord(lines[i])
                      THEN CommonMargin(lines) ELSE 0
        IN  ret = Str(join([i \in DOMAIN lines |->
                        IF HasWord(lines[i])
                        THEN SubSeq(lines[i], margin + 1, Len(lines[i]))
                        ELSE LineEnd(lines[i])]))

C16_Witness ==
    /\ call.op = "step_doc_string"
    /\ self.featurefile_contents = <<<<" ", "a", "\n">>, <<" ", " ", "\n">>>>
    /\ Len(call.subtree) = 2
    /\ ret = Str(<<"a", "\n", "\n">>)

\* C16 as stated: step_doc_string returns the source lines
\* start_line..end_line concatenated, each line having lost the minimum
\* leading whitespace common to all non-empty lines and nothing else.
C16_OnlyCommonIndentRemoved ==
    (call.op = "step_doc_string" /\ \E i \in DOMAIN DocStringLines :
                                        HasWord(DocStringLines[i])) =>
        LET lines == DocStringLines
            margin == CommonMargin(lines)
        IN  ret = Str(join([i \in DOMAIN lines |->
                        IF Len(lines[i]) - Len(LineEnd(lines[i])) >= margin
                        THEN SubSeq(lines[i], margin + 1, Len(lines[i]))
                        ELSE LineEnd(lines[i])]))


\* the children of the feature body reduced by the feature_body() call just
\* made, without the description and without a leading Background
BodyScenarios ==
    LET scenarios == Tail(call.subtree)
    IN  IF scenarios # <<>> /\ scenarios[1].type = "Background"
        THEN Tail(scenarios) ELSE scenarios

\* the number of children before the first explicit Rule
LeadingRun(scenarios) ==
    CHOOSE n \in 0..Len(scenarios) :
        /\ \A i \in 1..n : scenarios[i].type # "Rule"
        /\ n = Len(scenarios) \/ scenarios[n + 1].type = "Rule"

SetterCalls(setter, object) ==
    {i \in DOMAIN setters : setters[i].setter = setter /\ setters[i].object = object}

\* C12: the Feature's background is the first child of the body after the
\* description when that child is a Background and None otherwise, and every
\* Rule of the Feature, the DefaultRule included, has that background attached.
C12_BackgroundOnFeatureAndRules ==
    /\ call.op = "feature_body" =>
        LET scenarios == Tail(call.subtree)
            background_ == ret.val[2]
            rules == ret.val[3].val
        IN  /\ background_ = IF scenarios # <<>> /\ scenarios[1].type = "Background"
                             THEN scenarios[1] ELSE None
            /\ \A i \in DOMAIN rules :
                /\ SetterCalls("set_background", rules[i]) # {}
                /\ \A c \in SetterCalls("set_background", rules[i]) :
                        setters[c].value = background_
    /\ call.op = "feature" =>
        LET tags == takewhile("Tag", call.subtree)
        IN  /\ Len(call.subtree) > Len(tags) + 1 =>
                /\ ret.background = call.subtree[Len(tags) + 2].val[2]
                /\ ret.rules = call.subtree[Len(tags) + 2].val[3].val
            /\ Len(call.subtree) = Len(tags) + 1 =>
                (ret.background = None /\ ret.rules = <<>>)
            /\ \A i \in DOMAIN ret.rules :
                /\ SetterCalls("set_background", ret.rules[i]) # {}
                /\ \A c \in SetterCalls("set_background", ret.rules[i]) :
                        setters[c].value = ret.background

C12_Witness ==
    /\ call.op = "feature"
    /\ ret.background # None
    /\ Len(ret.rules) = 2
    /\ ret.rules[1].type = "DefaultRule"

\* C13: the set_rule of every scenario is called exactly once in the whole
\* traversal, with the Rule whose scenarios hold it; the set_feature of every
\* Rule is called exactly once, with the Feature that holds it; no
\* back-reference is assigned a second time.
C13_BackReferencesSetOnce ==
    /\ \A i, j \in DOMAIN setters :
        (setters[i].setter = setters[j].setter
            /\ setters[i].object = setters[j].object) => i = j
    /\ call.op \in {"rule", "feature"} =>
        \A r \in (IF call.op = "rule" THEN {ret}
                   ELSE {ret.rules[i] : i \in DOMAIN ret.rules}) :
            /\ \A k \in DOMAIN r.scenarios :
                /\ Cardinality(SetterCalls("set_rule", r.scenarios[k])) = 1
                /\ \A c \in SetterCalls("set_rule", r.scenarios[k]) :
                        setters[c].value = r
            /\ call.op = "feature" =>
                /\ Cardinality(SetterCalls("set_feature", r)) = 1
                /\ \A c \in SetterCalls("set_feature", r) : setters[c].value = ret

C13_Witness ==
    /\ call.op = "feature"
    /\ Len(ret.rules) = 2
    /\ ret.rules[1].type = "DefaultRule"
    /\ Len(ret.rules[1].scenarios) = 1
    /\ Len(ret.rules[2].scenarios) = 1
    /\ Len(setters) = 6


\* the scenarios held by the nodes, by the Rules among them and by the Rules
\* of a reduced feature body or Feature, in source order
RECURSIVE ScenariosOf(_)
ScenariosOf(seq) ==
    IF seq = <<>> THEN <<>>
    ELSE LET node == Head(seq)
         IN  (CASE node.type \in {"Scenario", "ScenarioOutline", "ScenarioLoop"} ->
                      <<node>>
                [] node.type \in {"Rule", "DefaultRule"} -> node.scenarios
                [] node.type = "tuple" -> ScenariosOf(node.val[3].val)
                [] node.type = "Feature" -> ScenariosOf(node.rules)
                [] OTHER -> <<>>)
             \o ScenariosOf(Tail(seq))

\* the example rows of an Outline, the iterations of a Loop
Expansions(node) ==
    CASE node.type = "ScenarioOutline" -> Len(node.examples.val)
      [] node.type = "ScenarioLoop" -> node.iterations.val
      [] OTHER -> 0

RECURSIVE Reserved(_)
Reserved(scenarios) ==
    IF scenarios = <<>> THEN 0
    ELSE 1 + Expansions(Head(scenarios)) + Reserved(Tail(scenarios))

IdsReserved ==
    LET scenarios == ScenariosOf(nodes)
    IN  /\ \A k \in DOMAIN scenarios :
            scenarios[k].id = 1 + Reserved(SubSeq(scenarios, 1, k - 1))
        /\ \A j, k \in DOMAIN scenarios :
            j < k => scenarios[j].id + Expansions(scenarios[j]) < scenarios[k].id
        /\ InBody => self.scenario_id = 1 + Reserved(scenarios)

\* C18: within one prepared file, over any sequence of Scenario, Outline and
\* Loop reductions, in and outside of Rules, the scenario-id counter never
\* decreases, the k-th of them gets the id 1 + the sum over the earlier ones
\* of (1 + expansion count), and the ranges [id, id + expansion count] are
\* pairwise disjoint.
C18_ScenarioIdsReservedInOrder ==
    [][/\ (files > 0 /\ call'.op # "prepare") =>
            self'.scenario_id >= self.scenario_id
       /\ IdsReserved']_vars

C18_Witness ==
    /\ call.op = "rule"
    /\ Len(ScenariosOf(nodes)) = 2
    /\ ScenariosOf(nodes)[1].type = "ScenarioOutline"
    /\ ScenariosOf(nodes)[1].id = 1
    /\ ret.scenarios # <<>>
    /\ ret.scenarios[1].type = "ScenarioLoop"
    /\ ret.scenarios[1].id = 4
    /\ self.scenario_id = 7

\* the traversal of the current file is over
TraversalOver == call.op = "start" \/ raised # None

ScenarioReductions == {"scenario", "scenario_outline", "scenario_loop"}

\* C19: only the reductions of scenarios consume scenario ids: every other
\* call (background, rule, feature_body, feature, tag, step, step arguments,
\* data table, doc string, examples, iterations, description, start) leaves
\* the scenario-id counter as it is, so that the counter is 1 until the first
\* scenario of a prepared file is reduced and that scenario gets the id 1; a
\* step() call that raises FirstStepMustUseFirstLevelKeyword leaves the step
\* counter and the keyword context as they are.
C19_OnlyScenariosConsumeIds ==
    [][(files > 0 /\ call'.op # "prepare") =>
        /\ call'.op \notin ScenarioReductions =>
                self'.scenario_id = self.scenario_id
        /\ call'.op \in ScenarioReductions =>
                (ret'.id = self.scenario_id /\ self'.scenario_id > self.scenario_id)
        /\ (call'.op = "step" /\ raised' # None) =>
                /\ self'.step_id = self.step_id
                /\ self'.step_keyword_ctx = self.step_keyword_ctx
        /\ built' = 0 => self'.scenario_id = 1
        /\ (call'.op \in ScenarioReductions /\ self.scenario_id = 1) => ret'.id = 1]_vars

C19_Witness ==
    /\ call.op = "step"
    /\ raised = Exception("RadishFirstStepMustUseFirstLevelKeyword")
    /\ self.step_id = 1
    /\ self.step_keyword_ctx = None
    /\ self.scenario_id = 4
    /\ built = 1

====
